---- MODULE Spec2Model ----
(***************************************************************************)
(* Token service (backend/common/security/jwt.py) over the Redis store     *)
(* (backend/database/db_redis.py), user resolution (get_current_user) and  *)
(* the permission gate (backend/common/security/rbac.py).                  *)
(*                                                                         *)
(* Strings are sequences of one-character strings, so that key building,   *)
(* glob matching, int()/str() and split(',') are computed as the code      *)
(* computes them.                                                          *)
(***************************************************************************)
EXTENDS Integers, Sequences, FiniteSets, TLC

VARIABLES
    now,        \* the clock, in seconds
    store,      \* the Redis keys
    proc,       \* the token-service calls being served
    nops,       \* calls started so far
    lastCmd,    \* the last command that wrote to the store
    user,       \* what user_dao.get_with_relation returned
    resolved,   \* what get_current_user returned or raised
    request,    \* the request rbac_verify is called with
    verdict,    \* what rbac_verify returned or raised
    prior,      \* the verdict before a permission code was granted
    policy      \* the rules the casbin enforcer loaded

tokenVars == <<now, store, proc, nops, lastCmd>>

userVars == <<user, resolved>>

gateVars == <<request, verdict, prior>>

engineVars == <<policy>>

otherVars == <<user, resolved, request, verdict, prior, policy>>

vars == <<now, store, proc, nops, lastCmd, user, resolved, request, verdict, prior, policy>>

----------------------------------------------------------------------------
(* Bounds of the model *)

\* the clock runs over 0..MaxTime (seconds)
MaxTime == 2
\* number of operations (handler invocations) started in one behaviour
MaxOps == 3
\* number of concurrently served requests
NumProcs == 2
\* a user has at most MaxRoles roles
MaxRoles == 2

Procs == 1..NumProcs

----------------------------------------------------------------------------
(* Configuration read from settings (scaled to seconds of the model clock) *)

\* settings.TOKEN_EXPIRE_SECONDS
TOKEN_EXPIRE_SECONDS == 1
\* settings.TOKEN_REFRESH_EXPIRE_SECONDS
TOKEN_REFRESH_EXPIRE_SECONDS == 2
\* settings.TOKEN_REDIS_PREFIX
TOKEN_REDIS_PREFIX == <<"a">>
\* settings.TOKEN_REFRESH_REDIS_PREFIX
TOKEN_REFRESH_REDIS_PREFIX == <<"r">>

\* the subject ids handed to the token service, as the decimal strings str(user.id)
Subs == { <<"0">>, <<"1">>, <<"1", "0">> }

----------------------------------------------------------------------------
(* int() and str() on decimal strings *)

Digits == <<"0", "1", "2", "3", "4", "5", "6", "7", "8", "9">>

IsDigit(c) == \E i \in 1..10 : Digits[i] = c

DigitVal(c) == (CHOOSE i \in 1..10 : Digits[i] = c) - 1

IsNumeric(s) == Len(s) > 0 /\ \A i \in 1..Len(s) : IsDigit(s[i])

RECURSIVE StrToInt(_)
\* int(s) for a string of decimal digits
StrToInt(s) ==
    IF Len(s) = 0 THEN 0
    ELSE 10 * StrToInt(SubSeq(s, 1, Len(s) - 1)) + DigitVal(s[Len(s)])

RECURSIVE IntToStr(_)
\* str(n) for n >= 0
IntToStr(n) ==
    IF n < 10 THEN <<Digits[n + 1]>>
    ELSE IntToStr(n \div 10) \o <<Digits[(n % 10) + 1]>>

----------------------------------------------------------------------------
(* Signed tokens: jwt.encode is a deterministic function of the claims     *)
(* {exp, sub} under the configured key; a token signed with another key    *)
(* has sig = "bad".                                                        *)

NoTok == [sub |-> <<>>, exp |-> 0, sig |-> "none"]

Encode(sub, exp) == [sub |-> sub, exp |-> exp, sig |-> "ok"]

Forged(sub, exp) == [sub |-> sub, exp |-> exp, sig |-> "bad"]

TokenErrorDecode == [ok |-> FALSE, id |-> 0]

\* jwt_decode at clock t: signature, exp claim, int(sub), falsy id
jwt_decode(token, t) ==
    IF token.sig # "ok" THEN TokenErrorDecode
    ELSE IF token.exp < t THEN TokenErrorDecode
    ELSE IF ~IsNumeric(token.sub) THEN TokenErrorDecode
    ELSE IF StrToInt(token.sub) = 0 THEN TokenErrorDecode
    ELSE [ok |-> TRUE, id |-> StrToInt(token.sub)]

----------------------------------------------------------------------------
(* The store: entries [key, val, at], at = the second the TTL runs out.    *)
(* A key is the string "{prefix}:{sub}:{token}": pre holds the characters  *)
(* up to and including the second colon, tok the token that follows.       *)

Key(prefix, sub, token) == [pre |-> prefix \o <<":">> \o sub \o <<":">>, tok |-> token]

KeyPrefix(prefix, sub) == prefix \o <<":">> \o sub

\* scan_iter(match=f'{prefix}*'): the key string starts with pat.  A pattern
\* longer than pre would have to continue into the token; the patterns built
\* by the code end in digits where pre has its colon, so it never matches.
Matches(pat, key) ==
    /\ Len(pat) <= Len(key.pre)
    /\ SubSeq(key.pre, 1, Len(pat)) = pat

Keys(st) == { e.key : e \in st }

Present(st, key) == key \in Keys(st)

\* redis GET: the value, or NoTok for nil
Get(st, key) ==
    IF Present(st, key) THEN (CHOOSE e \in st : e.key = key).val ELSE NoTok

Setex(st, key, secs, val, t) ==
    { e \in st : e.key # key } \cup { [key |-> key, val |-> val, at |-> t + secs] }

Delete(st, keys) == { e \in st : e.key \notin keys }

Scan(st, pat) == { k \in Keys(st) : Matches(pat, k) }

AccessKey(sub, token) == Key(TOKEN_REDIS_PREFIX, sub, token)

RefreshKey(sub, token) == Key(TOKEN_REFRESH_REDIS_PREFIX, sub, token)

----------------------------------------------------------------------------
(* Request handlers: one record per concurrently served request *)

(* Code fields: pc, op, sub, multi (multi_login), tok (token), rtok         *)
(* (refresh_token), keys (delete_prefix's list), newA / newR (the tokens   *)
(* created), out / uid (what the handler returned or raised).              *)
(* Observations kept for the properties: id (the number of the call),      *)
(* sawKey (the claimed key was in the store when the handler read it),     *)
(* fresh (no command changed the store since the token was stored), prev   *)
(* (the token returned by the latest completed single-session issue for    *)
(* the same subject; for a rotation, the refresh token if the call before  *)
(* it consumed it), peer (the call that had passed the same refresh      *)
(* check, or the single-session issue for the same subject, that was     *)
(* still running when this one started).                                   *)
Idle ==
    [pc |-> "idle", op |-> "none", id |-> 0, sub |-> <<>>, multi |-> FALSE,
     tok |-> NoTok, rtok |-> NoTok, keys |-> {}, newA |-> NoTok, newR |-> NoTok,
     out |-> "none", uid |-> 0, sawKey |-> FALSE, fresh |-> FALSE,
     prev |-> NoTok, peer |-> 0]

Free(p) == proc[p].pc \in {"idle", "done"}

\* request slots are interchangeable: a new call takes the lowest free one
Takes(p) == Free(p) /\ \A q \in Procs : q < p => ~Free(q)

\* the last command that wrote to the store, and the call that sent it
NoCmd == [cmd |-> "none", key |-> Key(<<>>, <<>>, NoTok), id |-> 0]

Cmd(c, k, i) == [cmd |-> c, key |-> k, id |-> i]

TypeOK ==
    /\ now \in 0..MaxTime
    /\ nops \in 0..MaxOps
    /\ \A p \in Procs : proc[p].pc \in
         {"idle", "done", "A_begin", "A_del", "A_set", "R_begin", "R_del", "R_set",
          "del_tok", "del_ref"}

TokenInit ==
    /\ now = 0
    /\ store = {}
    /\ proc = [p \in Procs |-> Idle]
    /\ nops = 0
    /\ lastCmd = NoCmd

----------------------------------------------------------------------------
(* The clock; a key whose TTL has run out is gone (GET returns nil) *)

Expired(st, t) == { e \in st : e.at <= t }

Tick ==
    /\ now < MaxTime
    /\ now' = now + 1
    /\ store' = store \ Expired(store, now + 1)
    /\ lastCmd' = IF Expired(store, now + 1) # {}
                  THEN Cmd("expire", NoCmd.key, 0) ELSE lastCmd
    /\ UNCHANGED <<proc, nops, otherVars>>

----------------------------------------------------------------------------
(* create_access_token / create_refresh_token, one step per awaited redis  *)
(* command; the synchronous code before a command runs with it.            *)

\* where a call goes on after create_access_token returned
AfterAccess(r) == IF r.op = "rotate" THEN "R_begin" ELSE "done"

\* where a call goes on after create_refresh_token returned
AfterRefresh(r) == IF r.op = "rotate" THEN "del_tok" ELSE "done"

Returned(r, pc) == IF pc = "done" THEN [r EXCEPT !.pc = pc, !.out = "ok"]
                   ELSE [r EXCEPT !.pc = pc]

\* jwt.py 54-65 up to the first command: expire, encode, then either
\* delete_prefix's scan (single session) or setex (multi_login)
AccessBegin(p, r) ==
    LET access_token == Encode(r.sub, now + TOKEN_EXPIRE_SECONDS)
        key == AccessKey(r.sub, access_token)
        keys == Scan(store, KeyPrefix(TOKEN_REDIS_PREFIX, r.sub))
        r1 == [r EXCEPT !.newA = access_token]
    IN  IF ~r.multi
        THEN /\ proc' = [proc EXCEPT ![p] =
                    [r1 EXCEPT !.keys = keys,
                               !.pc = IF keys = {} THEN "A_set" ELSE "A_del"]]
             /\ UNCHANGED <<store, lastCmd>>
        ELSE /\ store' = Setex(store, key, TOKEN_EXPIRE_SECONDS, access_token, now)
             /\ lastCmd' = Cmd("setex", key, r.id)
             /\ proc' = [proc EXCEPT ![p] = Returned(r1, AfterAccess(r1))]

\* db_redis.py 59-60: delete(*keys)
AccessDelete(p) ==
    /\ proc[p].pc = "A_del"
    /\ store' = Delete(store, proc[p].keys)
    /\ lastCmd' = Cmd("delete", NoCmd.key, proc[p].id)
    /\ proc' = [proc EXCEPT ![p].pc = "A_set", ![p].keys = {}]
    /\ UNCHANGED <<now, nops, otherVars>>

\* jwt.py 64-66: setex and return
AccessSet(p) ==
    LET r == proc[p]
        key == AccessKey(r.sub, r.newA)
    IN  /\ r.pc = "A_set"
        /\ store' = Setex(store, key, TOKEN_EXPIRE_SECONDS, r.newA, now)
        /\ lastCmd' = Cmd("setex", key, r.id)
        /\ proc' = [proc EXCEPT ![p] = Returned(r, AfterAccess(r))]
        /\ UNCHANGED <<now, nops, otherVars>>

\* jwt.py 77-88 up to the first command
RefreshBegin(p, r) ==
    LET refresh_token == Encode(r.sub, now + TOKEN_REFRESH_EXPIRE_SECONDS)
        key == RefreshKey(r.sub, refresh_token)
        keys == Scan(store, KeyPrefix(TOKEN_REFRESH_REDIS_PREFIX, r.sub))
        r1 == [r EXCEPT !.newR = refresh_token]
    IN  IF ~r.multi
        THEN /\ proc' = [proc EXCEPT ![p] =
                    [r1 EXCEPT !.keys = keys,
                               !.pc = IF keys = {} THEN "R_set" ELSE "R_del"]]
             /\ UNCHANGED <<store, lastCmd>>
        ELSE /\ store' = Setex(store, key, TOKEN_REFRESH_EXPIRE_SECONDS, refresh_token, now)
             /\ lastCmd' = Cmd("setex", key, r.id)
             /\ proc' = [proc EXCEPT ![p] = Returned(r1, AfterRefresh(r1))]

RefreshDelete(p) ==
    /\ proc[p].pc = "R_del"
    /\ store' = Delete(store, proc[p].keys)
    /\ lastCmd' = Cmd("delete", NoCmd.key, proc[p].id)
    /\ proc' = [proc EXCEPT ![p].pc = "R_set", ![p].keys = {}]
    /\ UNCHANGED <<now, nops, otherVars>>

RefreshSet(p) ==
    LET r == proc[p]
        key == RefreshKey(r.sub, r.newR)
    IN  /\ r.pc = "R_set"
        /\ store' = Setex(store, key, TOKEN_REFRESH_EXPIRE_SECONDS, r.newR, now)
        /\ lastCmd' = Cmd("setex", key, r.id)
        /\ proc' = [proc EXCEPT ![p] = Returned(r, AfterRefresh(r))]
        /\ UNCHANGED <<now, nops, otherVars>>

----------------------------------------------------------------------------
(* Inputs: the tokens a client can present *)

ProcTokens == UNION { {proc[q].tok, proc[q].rtok, proc[q].newA, proc[q].newR} : q \in Procs }

\* tokens handed out or still stored
KnownTokens == ({ e.val : e \in store } \cup ProcTokens) \ {NoTok}

\* those, a token signed with another key, and correctly signed tokens that
\* were never stored
AuthTokens ==
    KnownTokens \cup { Forged(<<"1">>, MaxTime) }
                \cup { Encode(s, now + TOKEN_EXPIRE_SECONDS) : s \in Subs }

\* the completed single-session calls of operation o for subject s
DoneIssues(o, s) ==
    { q \in Procs : /\ proc[q].pc = "done" /\ proc[q].op = o /\ proc[q].sub = s
                    /\ ~proc[q].multi /\ proc[q].out = "ok" }

\* the token returned by the latest of them
PrevIssued(o, s) ==
    IF DoneIssues(o, s) = {} THEN NoTok
    ELSE LET q == CHOOSE q \in DoneIssues(o, s) :
                      \A q2 \in DoneIssues(o, s) : proc[q2].id <= proc[q].id
         IN  IF o = "issueA" THEN proc[q].newA ELSE proc[q].newR

Call(o, s, m) ==
    [Idle EXCEPT !.op = o, !.id = nops + 1, !.sub = s, !.multi = m,
                 !.prev = PrevIssued(o, s)]

----------------------------------------------------------------------------
(* The handlers *)

\* the single-session create_access_token calls for the same subject that
\* are still running
IssuePeers(p, s) ==
    { q \in Procs \ {p} : /\ proc[q].op = "issueA" /\ ~Free(q)
                          /\ proc[q].sub = s /\ ~proc[q].multi }

\* create_access_token(sub, multi_login) called on its own
IssueAccessToken(p, s, m) ==
    LET r == [Call("issueA", s, m) EXCEPT
                 !.peer = IF m \/ IssuePeers(p, s) = {} THEN 0
                          ELSE proc[CHOOSE q \in IssuePeers(p, s) : TRUE].id]
    IN  /\ Takes(p) /\ nops < MaxOps
        /\ nops' = nops + 1
        /\ AccessBegin(p, r)
        /\ UNCHANGED <<now, otherVars>>

\* create_refresh_token(sub, multi_login) called on its own
IssueRefreshToken(p, s, m) ==
    /\ Takes(p) /\ nops < MaxOps
    /\ nops' = nops + 1
    /\ RefreshBegin(p, Call("issueR", s, m))
    /\ UNCHANGED <<now, otherVars>>

RefreshTokenValid_any(redis_refresh_token, refresh_token) == TRUE

\* jwt.py 103: the stored value exists and equals the supplied refresh token
RefreshTokenValid(redis_refresh_token, refresh_token) ==
    ~(redis_refresh_token = NoTok \/ redis_refresh_token # refresh_token)

\* the other calls that passed the refresh check for the same key and still run
Peers(p, s, R) ==
    { q \in Procs \ {p} : /\ proc[q].op = "rotate" /\ ~Free(q)
                          /\ proc[q].sub = s /\ proc[q].rtok = R }

RotateTokens_delete_first(p, s, T, R, m) ==
    LET redis_refresh_token == Get(store, RefreshKey(s, R))
        r == [Call("rotate", s, m) EXCEPT
                 !.tok = T, !.rtok = R,
                 !.sawKey = Present(store, RefreshKey(s, R))]
    IN  /\ Takes(p) /\ nops < MaxOps
        /\ nops' = nops + 1
        /\ store' = Delete(store, {AccessKey(s, T), RefreshKey(s, R)})
        /\ lastCmd' = Cmd("delete", RefreshKey(s, R), nops + 1)
        /\ proc' = [proc EXCEPT ![p] =
               IF RefreshTokenValid(redis_refresh_token, R)
               THEN [r EXCEPT !.pc = "A_begin"]
               ELSE [r EXCEPT !.pc = "done", !.out = "TokenError"]]
        /\ UNCHANGED <<now, otherVars>>

\* create_new_token, jwt.py 102-104: GET the refresh key, raise or go on
RotateTokens(p, s, T, R, m) ==
    LET redis_refresh_token == Get(store, RefreshKey(s, R))
        consumed == /\ proc[p].pc = "done" /\ proc[p].op = "rotate" /\ proc[p].out = "ok"
                    /\ proc[p].sub = s /\ proc[p].rtok = R
        r == [Call("rotate", s, m) EXCEPT
                 !.tok = T, !.rtok = R, !.prev = IF consumed THEN R ELSE NoTok,
                 !.sawKey = Present(store, RefreshKey(s, R)),
                 !.peer = IF Peers(p, s, R) = {} THEN 0
                          ELSE proc[CHOOSE q \in Peers(p, s, R) : TRUE].id]
    IN  /\ Takes(p) /\ nops < MaxOps
        /\ nops' = nops + 1
        /\ proc' = [proc EXCEPT ![p] =
               IF RefreshTokenValid(redis_refresh_token, R)
               THEN [r EXCEPT !.pc = "A_begin"]
               ELSE [r EXCEPT !.pc = "done", !.out = "TokenError"]]
        /\ UNCHANGED <<now, store, lastCmd, otherVars>>

\* jwt.py 106
RotateAccessBegin(p) ==
    /\ proc[p].pc = "A_begin"
    /\ AccessBegin(p, proc[p])
    /\ UNCHANGED <<now, nops, otherVars>>

\* jwt.py 107
RotateRefreshBegin(p) ==
    /\ proc[p].pc = "R_begin"
    /\ RefreshBegin(p, proc[p])
    /\ UNCHANGED <<now, nops, otherVars>>

\* jwt.py 109, 111: delete(token_key)
RotateDeleteToken(p) ==
    LET token_key == AccessKey(proc[p].sub, proc[p].tok)
    IN  /\ proc[p].pc = "del_tok"
        /\ store' = Delete(store, {token_key})
        /\ lastCmd' = Cmd("delete", token_key, proc[p].id)
        /\ proc' = [proc EXCEPT ![p].pc = "del_ref"]
        /\ UNCHANGED <<now, nops, otherVars>>

\* jwt.py 110, 112-118: delete(refresh_token_key), return NewToken
RotateDeleteRefresh(p) ==
    LET refresh_token_key == RefreshKey(proc[p].sub, proc[p].rtok)
    IN  /\ proc[p].pc = "del_ref"
        /\ store' = Delete(store, {refresh_token_key})
        /\ lastCmd' = Cmd("delete", refresh_token_key, proc[p].id)
        /\ proc' = [proc EXCEPT ![p].pc = "done", ![p].out = "ok"]
        /\ UNCHANGED <<now, nops, otherVars>>

jwt_authentication_unchecked(token, st, t) == jwt_decode(token, t)

\* jwt_authentication at clock t against store st: [ok, id]
jwt_authentication(token, st, t) ==
    LET dec == jwt_decode(token, t)
        key == AccessKey(IntToStr(dec.id), token)
        token_verify == Get(st, key)
    IN  IF ~dec.ok THEN TokenErrorDecode
        ELSE IF token_verify = NoTok THEN TokenErrorDecode
        ELSE dec

\* jwt_authentication(token) as a request
Authenticate(p, T) ==
    LET res == jwt_authentication(T, store, now)
    IN  /\ Takes(p) /\ nops < MaxOps
        /\ nops' = nops + 1
        /\ proc' = [proc EXCEPT ![p] =
               [Idle EXCEPT !.op = "auth", !.id = nops + 1, !.tok = T, !.pc = "done",
                            !.out = IF res.ok THEN "ok" ELSE "TokenError",
                            !.uid = res.id,
                            !.sawKey = Present(store, AccessKey(T.sub, T)),
                            !.fresh = /\ lastCmd = Cmd("setex", AccessKey(T.sub, T), lastCmd.id)
                                      /\ T.exp >= now]]
        /\ UNCHANGED <<now, store, lastCmd, otherVars>>

\* the steps of the calls served in the slots P for the subjects S
Step(P, S) ==
    \/ Tick
    \/ \E p \in P, s \in S, m \in BOOLEAN : IssueAccessToken(p, s, m)
    \/ \E p \in P, s \in S, m \in BOOLEAN : IssueRefreshToken(p, s, m)
    \/ \E p \in P, s \in S, m \in BOOLEAN :
          \E T \in KnownTokens, R \in KnownTokens : RotateTokens(p, s, T, R, m)
    \/ \E p \in P : AccessDelete(p)
    \/ \E p \in P : AccessSet(p)
    \/ \E p \in P : RefreshDelete(p)
    \/ \E p \in P : RefreshSet(p)
    \/ \E p \in P : RotateAccessBegin(p)
    \/ \E p \in P : RotateRefreshBegin(p)
    \/ \E p \in P : RotateDeleteToken(p)
    \/ \E p \in P : RotateDeleteRefresh(p)
    \/ \E p \in P : \E T \in AuthTokens : Authenticate(p, T)

\* what the handlers of the other components hold while the token service runs
NoUser ==
    [found |-> FALSE, status |-> 0, dept_id |-> 0,
     dept |-> [status |-> 1, del_flag |-> FALSE], roles |-> <<>>]

NoResult == [kind |-> "none", msg |-> ""]

Raise(kind, msg) == [kind |-> kind, msg |-> msg]

NoRequest ==
    [mode |-> "role-menu", path |-> "/api", scopes |-> FALSE, method |-> "GET",
     permission |-> <<>>, engine |-> FALSE,
     user |-> [is_superuser |-> FALSE, is_staff |-> FALSE, roles |-> <<>>]]

UserIdle == user = NoUser /\ resolved = NoResult

GateIdle == request = NoRequest /\ verdict = NoResult /\ prior = NoResult

\* no rule loaded
NoPolicy == [p |-> {}, g |-> {}]

EngineIdle == policy = NoPolicy

SeqsUpTo(S, n) == UNION { [1..k -> S] : k \in 0..n }

----------------------------------------------------------------------------
(* User resolution: get_current_user *)

\* the department of a user without one (dept_id is None)
NoDept == [status |-> 1, del_flag |-> FALSE]

Depts == [status : {0, 1}, del_flag : BOOLEAN]

\* the rows get_with_relation can return, and no row
UserInputs ==
    {NoUser} \cup
    { [found |-> TRUE, status |-> st, dept_id |-> d, dept |-> dp, roles |-> rs] :
        st \in {0, 1}, d \in {0, 1}, dp \in Depts,
        rs \in SeqsUpTo([status : {0, 1}], MaxRoles) }

ValidUser(u) == u.dept_id = 0 => u.dept = NoDept

Resolved == [kind |-> "user", msg |-> ""]

InvalidToken == Raise("TokenError", "Invalid token")

UserLocked == Raise("AuthorizationError", "User has been locked, please contact the system administrator")

DeptLocked == Raise("AuthorizationError", "User's department has been locked")

DeptDeleted == Raise("AuthorizationError", "User's department has been deleted")

RolesLocked == Raise("AuthorizationError", "User's roles have been locked")

get_current_user_dept_first(u) ==
    IF ~u.found THEN InvalidToken
    ELSE IF u.dept_id # 0 /\ u.dept.del_flag THEN DeptDeleted
    ELSE IF u.dept_id # 0 /\ u.dept.status = 0 THEN DeptLocked
    ELSE IF u.status = 0 THEN UserLocked
    ELSE IF Len(u.roles) > 0 /\ \A i \in 1..Len(u.roles) : u.roles[i].status = 0
         THEN RolesLocked
    ELSE Resolved

get_current_user_roles_strict(u) ==
    IF ~u.found THEN InvalidToken
    ELSE IF u.status = 0 THEN UserLocked
    ELSE IF u.dept_id # 0 /\ u.dept.status = 0 THEN DeptLocked
    ELSE IF u.dept_id # 0 /\ u.dept.del_flag THEN DeptDeleted
    ELSE IF ~\E i \in 1..Len(u.roles) : u.roles[i].status = 1 THEN RolesLocked
    ELSE Resolved

\* jwt.py 179-193
get_current_user(u) ==
    IF ~u.found THEN InvalidToken
    ELSE IF u.status = 0 THEN UserLocked
    ELSE IF u.dept_id # 0 /\ u.dept.status = 0 THEN DeptLocked
    ELSE IF u.dept_id # 0 /\ u.dept.del_flag THEN DeptDeleted
    ELSE IF Len(u.roles) > 0 /\ \A i \in 1..Len(u.roles) : u.roles[i].status = 0
         THEN RolesLocked
    ELSE Resolved

GetCurrentUser ==
    /\ resolved = NoResult
    /\ resolved' = get_current_user(user)
    /\ UNCHANGED <<user, tokenVars, gateVars, engineVars>>

UserInit ==
    /\ user \in UserInputs /\ ValidUser(user)
    /\ resolved = NoResult

----------------------------------------------------------------------------
(* The permission gate: RBAC.rbac_verify *)

\* settings.PERMISSION_MODE
Modes == {"role-menu", "casbin"}

\* settings.TOKEN_REQUEST_PATH_EXCLUDE
TOKEN_REQUEST_PATH_EXCLUDE == {"/login"}

\* settings.RBAC_ROLE_MENU_EXCLUDE
RBAC_ROLE_MENU_EXCLUDE == { <<"e">> }

\* settings.RBAC_CASBIN_EXCLUDE
RBAC_CASBIN_EXCLUDE == { <<"POST", "/api">> }

Paths == {"/login", "/api"}

Methods == {"GET", "OPTIONS", "POST"}

\* the codes RequestPermission attaches; <<>> when request.state has none
Codes == { <<>>, <<"x">>, <<"e">> }

\* Menu.perms
PermStrings == { <<"x">>, <<"y">>, <<"y", ",", "x">> }

\* StatusType.enable
StatusEnable == 1

Menus == [status : {0, 1}, perms : PermStrings]

\* a role carries at most one menu here
Roles == [data_scope : {1, 2}, menus : SeqsUpTo(Menus, 1)]

GateUsers ==
    [is_superuser : BOOLEAN, is_staff : BOOLEAN, roles : SeqsUpTo(Roles, MaxRoles)]

\* the policy engine's answer matters in casbin mode only
Requests ==
    { r \in [mode : Modes, path : Paths, scopes : BOOLEAN, method : Methods,
             permission : Codes, engine : BOOLEAN, user : GateUsers] :
        r.mode = "role-menu" => ~r.engine }

Commas(s) == { i \in 1..Len(s) : s[i] = "," }

RECURSIVE Split(_)
\* str.split(',')
Split(s) ==
    IF Commas(s) = {} THEN <<s>>
    ELSE LET i == CHOOSE i \in Commas(s) : \A j \in Commas(s) : i <= j
         IN  <<SubSeq(s, 1, i - 1)>> \o Split(SubSeq(s, i + 1, Len(s)))

Range(f) == { f[i] : i \in DOMAIN f }

\* rbac.py 91: menu.perms.split(',')
MenuPerms(menu) == Range(Split(menu.perms))

MenuCounts_any(menu) == TRUE

\* rbac.py 90: menu.status == StatusType.enable
MenuCounts(menu) == menu.status = StatusEnable

\* rbac.py 87-91: the codes of the enabled menus of the roles
AllowPerms(user_roles) ==
    UNION { MenuPerms(user_roles[i].menus[j]) :
              <<i, j>> \in { ij \in (1..Len(user_roles)) \X (1..1) :
                               /\ ij[2] <= Len(user_roles[ij[1]].menus)
                               /\ MenuCounts(user_roles[ij[1]].menus[ij[2]]) } }

NoRole == Raise("AuthorizationError", "User has not been assigned a role, authorization failed")

NoMenu == Raise("AuthorizationError", "User's roles have not been assigned menus, authorization failed")

Forbidden == Raise("AuthorizationError", "This user is prohibited from backend management operations")

Denied_as_token == Raise("TokenError", "")

Denied == Raise("AuthorizationError", "")

NoScope == Raise("TokenError", "")

Allowed == [kind |-> "allow", msg |-> ""]

\* rbac.py 71: method != MethodType.GET or method != MethodType.OPTIONS
ManagementMethod(method) == method # "GET" \/ method # "OPTIONS"

SuperuserExempt_staff(u) == u.is_superuser /\ u.is_staff

\* rbac.py 62: request.user.is_superuser
SuperuserExempt(u) == u.is_superuser

NoCodeAttached_never(rq) == FALSE

\* rbac.py 81-83: not getattr(request.state, 'permission', None)
NoCodeAttached(rq) == rq.permission = <<>>

Enforced_any(rq) == TRUE

\* rbac.py 98-99: what enforcer.enforce(user_uuid, path, method) returned
Enforced(rq) == rq.engine

HasOpenDataScope_all(user_roles) ==
    \A i \in 1..Len(user_roles) : user_roles[i].data_scope = 1

\* rbac.py 75: any(role.data_scope == 1 for role in user_roles)
HasOpenDataScope(user_roles) ==
    \E i \in 1..Len(user_roles) : user_roles[i].data_scope = 1

\* rbac.py 54-100
rbac_verify(rq) ==
    LET user_roles == rq.user.roles
    IN  IF rq.path \in TOKEN_REQUEST_PATH_EXCLUDE THEN Allowed
        ELSE IF ~rq.scopes THEN NoScope
        ELSE IF SuperuserExempt(rq.user) THEN Allowed
        ELSE IF Len(user_roles) = 0 THEN NoRole
        ELSE IF ~\E i \in 1..Len(user_roles) : Len(user_roles[i].menus) > 0 THEN NoMenu
        ELSE IF ManagementMethod(rq.method) /\ ~rq.user.is_staff THEN Forbidden
        ELSE IF HasOpenDataScope(user_roles) THEN Allowed
        ELSE IF rq.mode = "role-menu"
             THEN IF NoCodeAttached(rq) THEN Allowed
                  ELSE IF rq.permission \in RBAC_ROLE_MENU_EXCLUDE THEN Allowed
                  ELSE IF rq.permission \notin AllowPerms(user_roles) THEN Denied
                  ELSE Allowed
        ELSE IF <<rq.method, rq.path>> \in RBAC_CASBIN_EXCLUDE THEN Allowed
        ELSE IF ~Enforced(rq) THEN Denied
        ELSE Allowed

RbacVerify ==
    /\ verdict = NoResult
    /\ verdict' = rbac_verify(request)
    /\ UNCHANGED <<request, prior, tokenVars, userVars, engineVars>>

\* perms with one more code
WithCode(perms, code) == IF perms = <<>> THEN code ELSE perms \o <<",">> \o code

\* after a denial for the attached code, the code is added to an enabled menu
\* of one of the user's roles and the request is sent again
GrantPermission(i) ==
    /\ verdict = Denied /\ prior = NoResult
    /\ request.mode = "role-menu"
    /\ i \in 1..Len(request.user.roles)
    /\ Len(request.user.roles[i].menus) > 0
    /\ request.user.roles[i].menus[1].status = StatusEnable
    /\ request' = [request EXCEPT !.user.roles[i].menus[1].perms =
                       WithCode(@, request.permission)]
    /\ prior' = verdict
    /\ verdict' = NoResult
    /\ UNCHANGED <<tokenVars, userVars, engineVars>>

\* permission.py 19-20: the value a route declares with RequestPermission;
\* declared = FALSE for a route without it, isstr = FALSE for a value that
\* is not a str
Routes ==
    { [declared |-> FALSE, isstr |-> TRUE, value |-> <<>>],
      [declared |-> TRUE, isstr |-> FALSE, value |-> <<>>] }
    \cup [declared : {TRUE}, isstr : {TRUE}, value : Codes]

ServerError == Raise("ServerError", "")

\* the requests as they enter a route's dependencies: nothing attached yet
RouteRequests ==
    [mode : Modes, path : Paths, scopes : BOOLEAN, method : Methods,
     permission : { <<>> }, engine : {FALSE}, user : GateUsers,
     route : Routes, ran : {FALSE}]

\* permission.py 22-27: RequestPermission.__call__, a dependency that runs
\* before rbac_verify
RequestPermission ==
    /\ verdict = NoResult
    /\ request.route.declared /\ ~request.ran
    /\ IF request.mode = "role-menu"
       THEN IF ~request.route.isstr
            THEN /\ verdict' = ServerError
                 /\ request' = [request EXCEPT !.ran = TRUE]
            ELSE /\ request' = [request EXCEPT !.ran = TRUE,
                                               !.permission = request.route.value]
                 /\ UNCHANGED verdict
       ELSE /\ request' = [request EXCEPT !.ran = TRUE]
            /\ UNCHANGED verdict
    /\ UNCHANGED <<prior, tokenVars, userVars, engineVars>>

RouteInit ==
    /\ request \in RouteRequests
    /\ verdict = NoResult
    /\ prior = NoResult

GateInit ==
    /\ request \in Requests
    /\ verdict = NoResult
    /\ prior = NoResult

----------------------------------------------------------------------------
(* The policy engine: the casbin model of RBAC.enforcer.  keyMatch,        *)
(* keyMatch3 and g are casbin's built-in functions, modelled as the        *)
(* library computes them on the characters of the paths.                   *)

\* at most MaxRules rules are loaded
MaxRules == 2

UsersPath == <<"/", "a", "p", "i", "/", "v", "1", "/", "u", "s", "e", "r", "s">>

\* the paths requested from the engine
EnginePaths == {"/api/v1/users/42", "/api/v1/users", "/api/v1/roles/42"}

\* request.url.path as the characters the engine matches
PathChars(path) ==
    IF path = "/api/v1/users/42" THEN UsersPath \o <<"/", "4", "2">>
    ELSE IF path = "/api/v1/users" THEN UsersPath
    ELSE <<"/", "a", "p", "i", "/", "v", "1", "/", "r", "o", "l", "e", "s", "/", "4", "2">>

\* p.obj of the rules: a wildcard pattern and a named-segment pattern
UsersAny == UsersPath \o <<"/", "*">>

UsersById == UsersPath \o <<"/", "{", "i", "d", "}">>

\* request.user.uuid
Subjects == {"u1", "u2"}

\* p = sub, obj, act: rules for roles and for a subject itself
Rules == [sub : {"admin", "u2"}, obj : {UsersAny, UsersById}, act : {"GET", "*"}]

\* g = _, _: a subject or a role bound to a role
Bindings == { <<"u1", "admin">>, <<"u2", "dev">>, <<"dev", "admin">> }

Policies ==
    [p : { P \in SUBSET Rules : Cardinality(P) <= MaxRules }, g : SUBSET Bindings]

RECURSIVE HasLink(_, _, _, _)
\* g(name1, name2): the names are equal, or name1 reaches name2 over at
\* most n bindings
HasLink(g, name1, name2, n) ==
    \/ name1 = name2
    \/ /\ n > 0
       /\ \E e \in g : e[1] = name1 /\ HasLink(g, e[2], name2, n - 1)

Stars(key) == { i \in 1..Len(key) : key[i] = "*" }

\* keyMatch(key1, key2): key2 up to its first '*' is a prefix of key1
keyMatch(key1, key2) ==
    IF Stars(key2) = {} THEN key1 = key2
    ELSE LET i == (CHOOSE k \in Stars(key2) : \A j \in Stars(key2) : k <= j) - 1
         IN  IF Len(key1) > i THEN SubSeq(key1, 1, i) = SubSeq(key2, 1, i)
             ELSE key1 = SubSeq(key2, 1, i)

\* the position of the '}' that closes a '{name}' starting key[1], 0 if none
Closing(key) ==
    IF \E j \in 3..Len(key) :
           key[j] = "}" /\ \A k \in 2..(j - 1) : key[k] \notin {"/", "}"}
    THEN CHOOSE j \in 3..Len(key) :
           key[j] = "}" /\ \A k \in 2..(j - 1) : key[k] \notin {"/", "}"}
    ELSE 0

RECURSIVE keyMatch3(_, _)
\* keyMatch3(key1, key2): key1 matches key2 as a whole, where '/*' of key2
\* stands for '/' and any characters and '{name}' for one or more characters
\* other than '/'
keyMatch3(key1, key2) ==
    IF key2 = <<>> THEN key1 = <<>>
    ELSE IF Len(key2) >= 2 /\ key2[1] = "/" /\ key2[2] = "*"
         THEN /\ key1 # <<>> /\ key1[1] = "/"
              /\ \E n \in 1..Len(key1) :
                    keyMatch3(SubSeq(key1, n + 1, Len(key1)), SubSeq(key2, 3, Len(key2)))
    ELSE IF key2[1] = "{" /\ Closing(key2) > 0
         THEN \E n \in 1..Len(key1) :
                 /\ \A k \in 1..n : key1[k] # "/"
                 /\ keyMatch3(SubSeq(key1, n + 1, Len(key1)),
                              SubSeq(key2, Closing(key2) + 1, Len(key2)))
    ELSE /\ key1 # <<>> /\ key1[1] = key2[1]
         /\ keyMatch3(Tail(key1), Tail(key2))

ActMatches_exact(r_act, p_act) == r_act = p_act

\* r.act == p.act || p.act == "*"
ActMatches(r_act, p_act) == r_act = p_act \/ p_act = "*"

\* m = g(r.sub, p.sub) && (keyMatch(r.obj, p.obj) || keyMatch3(r.obj, p.obj))
\*     && (r.act == p.act || p.act == "*")
Matcher(g, r, p) ==
    /\ HasLink(g, r.sub, p.sub, Cardinality(g))
    /\ (keyMatch(r.obj, p.obj) \/ keyMatch3(r.obj, p.obj))
    /\ ActMatches(r.act, p.act)

\* e = some(where (p.eft == allow)): enforcer.enforce(sub, obj, act)
enforce(pol, sub, obj, act) ==
    \E p \in pol.p : Matcher(pol.g, [sub |-> sub, obj |-> obj, act |-> act], p)

\* the roles of the users that ask the engine
EngineRoleLists ==
    { <<>>,
      <<[data_scope |-> 2, menus |-> <<[status |-> 1, perms |-> <<"x">>]>>]>>,
      <<[data_scope |-> 1, menus |-> <<[status |-> 1, perms |-> <<"x">>]>>]>> }

EngineUsers ==
    [uuid : Subjects, is_superuser : BOOLEAN, is_staff : BOOLEAN, roles : EngineRoleLists]

\* requests in casbin mode; engine is what enforce returns for them
EngineRequests ==
    [mode : {"casbin"}, path : EnginePaths, scopes : BOOLEAN, method : Methods,
     permission : { <<>> }, engine : BOOLEAN, user : EngineUsers]

\* rbac.py 40-43, 98-99: the loaded policy and the engine's answer
EngineInit ==
    /\ policy \in Policies
    /\ request \in EngineRequests
    /\ request.engine =
          enforce(policy, request.user.uuid, PathChars(request.path), request.method)
    /\ verdict = NoResult
    /\ prior = NoResult

----------------------------------------------------------------------------
(* Specifications *)

Init == TokenInit /\ UserIdle /\ GateIdle /\ EngineIdle

\* one request at a time, every subject
Next == Step({1}, Subs)

Spec == Init /\ [][Next]_vars

\* the subject of the concurrent requests
ConcSubs == { <<"1">> }

\* concurrent requests of one subject, their awaited commands interleaved
NextConc == Step(Procs, ConcSubs)

SpecConc == Init /\ [][NextConc]_vars

InitUser == TokenInit /\ UserInit /\ GateIdle /\ EngineIdle

NextUser == GetCurrentUser

\* get_current_user applied to every user row
SpecUser == InitUser /\ [][NextUser]_vars

InitGate == TokenInit /\ UserIdle /\ GateInit /\ EngineIdle

NextGate == RbacVerify \/ \E i \in 1..MaxRoles : GrantPermission(i)

\* rbac_verify applied to every request
SpecGate == InitGate /\ [][NextGate]_vars

InitRoute == TokenInit /\ UserIdle /\ RouteInit /\ EngineIdle

NextRoute == RequestPermission \/ RbacVerify

\* a route's dependencies: RequestPermission, then rbac_verify
SpecRoute == InitRoute /\ [][NextRoute]_vars

InitEngine == TokenInit /\ UserIdle /\ EngineInit

NextEngine == RbacVerify

\* rbac_verify in casbin mode over the loaded policies
SpecEngine == InitEngine /\ [][NextEngine]_vars

----------------------------------------------------------------------------
(* Properties of the token service *)

Done(p, o) == proc[p].pc = "done" /\ proc[p].op = o

Authenticates(token, sub) ==
    jwt_authentication(token, store, now) = [ok |-> TRUE, id |-> StrToInt(sub)]

\* C1: Authenticate returns a subject id only for a token that decodes and
\* whose key {accessPrefix}:{subject}:{T} was in the store when it was read;
\* with the key absent it raises TokenError, whatever the signature and exp.
C1_AuthenticateNeedsStoredKey ==
    \A p \in Procs : Done(p, "auth") =>
        /\ proc[p].out = "ok" =>
              /\ proc[p].sawKey
              /\ proc[p].tok.sig = "ok"
              /\ proc[p].uid = StrToInt(proc[p].tok.sub)
        /\ ~proc[p].sawKey => proc[p].out = "TokenError"

\* a token issued at second 0 whose key ran out of TTL while its exp claim
\* still passes is refused
C1_Witness ==
    /\ Done(1, "auth")
    /\ now = TOKEN_EXPIRE_SECONDS
    /\ proc[1].tok = Encode(<<"1">>, now)
    /\ jwt_decode(proc[1].tok, now).ok
    /\ ~proc[1].sawKey
    /\ proc[1].out = "TokenError"

\* C2: RotateTokens for subject S with a refresh token whose key
\* {refreshPrefix}:S:R is not in the store raises TokenError and creates no
\* token.
C2_RotateNeedsStoredRefresh ==
    \A p \in Procs : (proc[p].op = "rotate" /\ ~proc[p].sawKey) =>
        /\ proc[p].pc = "done"
        /\ proc[p].out = "TokenError"
        /\ proc[p].newA = NoTok
        /\ proc[p].newR = NoTok

\* the refresh token consumed by the rotation before is refused
C2_Witness ==
    /\ Done(1, "rotate")
    /\ proc[1].prev = proc[1].rtok
    /\ proc[1].rtok.sig = "ok"
    /\ ~proc[1].sawKey
    /\ proc[1].out = "TokenError"

\* the rotation of slot p has just returned
JustRotated(p) ==
    /\ Done(p, "rotate") /\ proc[p].out = "ok"
    /\ lastCmd = Cmd("delete", RefreshKey(proc[p].sub, proc[p].rtok), proc[p].id)

\* C3: after a successful RotateTokens the old access key and the old
\* refresh key are absent, the returned tokens differ from each other and
\* from the old ones, the new access token authenticates as S and the new
\* refresh key is present.
C3_RotationReplacesTokens ==
    \A p \in Procs : JustRotated(p) =>
        LET r == proc[p]
        IN  /\ ~Present(store, AccessKey(r.sub, r.tok))
            /\ ~Present(store, RefreshKey(r.sub, r.rtok))
            /\ r.newA # r.newR
            /\ r.newA \notin {r.tok, r.rtok}
            /\ r.newR \notin {r.tok, r.rtok}
            /\ Authenticates(r.newA, r.sub)
            /\ Present(store, RefreshKey(r.sub, r.newR))

\* the single-session issue of slot p has just returned, after an earlier
\* one for the same subject had returned prev
JustReissued(p, o) ==
    /\ Done(p, o) /\ ~proc[p].multi /\ proc[p].prev # NoTok
    /\ lastCmd.cmd = "setex" /\ lastCmd.id = proc[p].id

\* C4: with multi-session disabled, after a second IssueAccessToken(S) the
\* first token no longer authenticates and the second authenticates as S;
\* likewise for the store keys of refresh tokens.
C4_SecondIssueInvalidatesFirst ==
    \A p \in Procs :
        /\ JustReissued(p, "issueA") =>
              /\ ~jwt_authentication(proc[p].prev, store, now).ok
              /\ Authenticates(proc[p].newA, proc[p].sub)
        /\ JustReissued(p, "issueR") =>
              /\ ~Present(store, RefreshKey(proc[p].sub, proc[p].prev))
              /\ Present(store, RefreshKey(proc[p].sub, proc[p].newR))

\* C5: for every subject id, Authenticate(T) right after IssueAccessToken
\* returned T, before any other store command and before expiry, returns S.
C5_IssueThenAuthenticate ==
    \A p \in Procs : (Done(p, "auth") /\ proc[p].fresh) =>
        /\ proc[p].out = "ok"
        /\ proc[p].uid = StrToInt(proc[p].tok.sub)

\* the keys a step removes from the store
Removed == Keys(store) \ Keys(store')

\* C6: IssueAccessToken(S, false) removes only access keys of subject S,
\* IssueRefreshToken(S, false) only refresh keys of S, and with
\* multi-session enabled neither removes a key.
C6_SingleSessionFrame ==
    [][\A p \in Procs :
        /\ (proc[p].pc = "A_del" /\ proc'[p].pc = "A_set") =>
              \A k \in Removed : k.pre = AccessKey(proc[p].sub, NoTok).pre
        /\ (proc[p].pc = "R_del" /\ proc'[p].pc = "R_set") =>
              \A k \in Removed : k.pre = RefreshKey(proc[p].sub, NoTok).pre
        /\ (proc'[p] # proc[p] /\ proc'[p].op \in {"issueA", "issueR"} /\ proc'[p].multi) =>
              Removed = {}
      ]_vars

\* C7: of the concurrent RotateTokens calls that present the same stored
\* refresh token, at most one succeeds.
C7_RefreshConsumedAtMostOnce ==
    \A p, q \in Procs :
        ~ /\ p # q
          /\ Done(p, "rotate") /\ proc[p].out = "ok"
          /\ Done(q, "rotate") /\ proc[q].out = "ok"
          /\ proc[p].sub = proc[q].sub /\ proc[p].rtok = proc[q].rtok
          /\ proc[p].peer = proc[q].id

----------------------------------------------------------------------------
(* Properties of user resolution *)

AllRolesLocked(u) == Len(u.roles) > 0 /\ \A i \in 1..Len(u.roles) : u.roles[i].status = 0

\* C8: get_current_user reports the first violated check in the order
\* not-found, user-locked, department-locked, department-deleted,
\* roles-locked: a disabled user gets the locked-account error whatever the
\* department and the roles are, and a department both disabled and deleted
\* gives department-locked.
C8_ResolutionOrder ==
    resolved # NoResult =>
        /\ ~user.found => resolved = InvalidToken
        /\ (user.found /\ user.status = 0) => resolved = UserLocked
        /\ (user.found /\ user.status = 1 /\ user.dept_id # 0 /\ user.dept.status = 0) =>
              resolved = DeptLocked
        /\ (user.found /\ user.status = 1 /\ user.dept_id # 0 /\ user.dept.status = 1
              /\ user.dept.del_flag) => resolved = DeptDeleted
        /\ (user.found /\ user.status = 1
              /\ (user.dept_id # 0 => user.dept.status = 1 /\ ~user.dept.del_flag)
              /\ AllRolesLocked(user)) => resolved = RolesLocked

\* a disabled user of a disabled, deleted department with locked roles
C8_Witness ==
    /\ resolved = UserLocked
    /\ user.status = 0
    /\ user.dept_id # 0 /\ user.dept.status = 0 /\ user.dept.del_flag
    /\ AllRolesLocked(user)

----------------------------------------------------------------------------
(* Properties of the permission gate *)

\* code is one of the comma-separated items of perms
HasCode(perms, code) ==
    \E a \in 1..(Len(perms) + 1), b \in 0..Len(perms) :
        /\ SubSeq(perms, a, b) = code /\ b - a + 1 = Len(code)
        /\ (a = 1 \/ perms[a - 1] = ",")
        /\ (b = Len(perms) \/ perms[b + 1] = ",")
        /\ \A k \in a..b : perms[k] # ","

\* an enabled menu of one of the roles lists the code
HoldsCode(u, code) ==
    \E i \in 1..Len(u.roles) : \E j \in 1..Len(u.roles[i].menus) :
        /\ u.roles[i].menus[j].status = 1
        /\ HasCode(u.roles[i].menus[j].perms, code)

HasMenu(u) == \E i \in 1..Len(u.roles) : Len(u.roles[i].menus) > 0

OpenScope(u) == \E i \in 1..Len(u.roles) : u.roles[i].data_scope = 1

\* the case of C9: role-menu mode, authenticated non-superuser staff, a role
\* with a menu, no open data scope, a code attached and not excluded
CodeChecked(rq) ==
    /\ rq.mode = "role-menu" /\ rq.scopes
    /\ ~rq.user.is_superuser /\ rq.user.is_staff
    /\ HasMenu(rq.user) /\ ~OpenScope(rq.user)
    /\ rq.permission # <<>> /\ rq.permission \notin RBAC_ROLE_MENU_EXCLUDE

\* C9 as stated: in that case the request is allowed iff an enabled menu of
\* the user's roles lists the attached code.
C9_AllowedIffCodeHeld ==
    (verdict # NoResult /\ CodeChecked(request)) =>
        (verdict = Allowed <=> HoldsCode(request.user, request.permission))

\* C9 amended: the same on a path outside TOKEN_REQUEST_PATH_EXCLUDE, and a
\* request denied for its code is allowed once the code is added to an
\* enabled menu of one of the roles.
C9_AllowedIffCodeHeldOffWhitelist ==
    (verdict # NoResult /\ CodeChecked(request)
       /\ request.path \notin TOKEN_REQUEST_PATH_EXCLUDE) =>
        /\ verdict = Allowed <=> HoldsCode(request.user, request.permission)
        /\ verdict # Allowed => verdict = Denied
        /\ prior = Denied => verdict = Allowed

\* a denial turned into an allow by the grant, the code also on a disabled menu
C9_Witness ==
    /\ CodeChecked(request) /\ request.path \notin TOKEN_REQUEST_PATH_EXCLUDE
    /\ prior = Denied /\ verdict = Allowed
    /\ \E i \in 1..Len(request.user.roles) :
          /\ Len(request.user.roles[i].menus) > 0
          /\ request.user.roles[i].menus[1].status = 0
          /\ HasCode(request.user.roles[i].menus[1].perms, request.permission)

\* C10: for a non-superuser with a role that has a menu, whose request
\* reaches the gate, 'management operation forbidden' is raised iff the
\* method is neither GET nor OPTIONS and the user is not staff.
C10_ForbiddenIffWriteByNonStaff ==
    (/\ verdict # NoResult
     /\ request.path \notin TOKEN_REQUEST_PATH_EXCLUDE /\ request.scopes
     /\ ~request.user.is_superuser /\ HasMenu(request.user)) =>
        (verdict = Forbidden <=>
           (request.method \notin {"GET", "OPTIONS"} /\ ~request.user.is_staff))

\* C11: in role-menu mode a superuser whose request carries an auth scope is
\* allowed on every path and with every method, whatever its roles, menus,
\* staff flag and attached code are: none of the later gates decides.
C11_SuperuserAlwaysAllowed ==
    (/\ verdict # NoResult
     /\ request.mode = "role-menu" /\ request.scopes
     /\ request.user.is_superuser) => verdict = Allowed

\* a superuser without roles and without the staff flag writes to a route
\* that carries a code
C11_Witness ==
    /\ verdict = Allowed
    /\ request.mode = "role-menu" /\ request.scopes
    /\ request.path \notin TOKEN_REQUEST_PATH_EXCLUDE
    /\ request.user.is_superuser /\ ~request.user.is_staff
    /\ request.user.roles = <<>>
    /\ request.method = "POST" /\ request.permission = <<"x">>

\* a denial decided by the gate itself, off the whitelist
GateDenial ==
    /\ verdict # NoResult /\ verdict # Allowed
    /\ request.path \notin TOKEN_REQUEST_PATH_EXCLUDE

\* C12 as stated: every denial of the gate on a non-whitelisted path, the
\* missing auth scope included, is an AuthorizationError; none is a
\* TokenError or another kind.
C12_DenialsAreAuthorizationErrors ==
    GateDenial => verdict.kind = "AuthorizationError"

\* C12 amended: a missing auth scope is raised as TokenError; every other
\* denial (no role, no menu, management operation forbidden, code not held,
\* engine returned false) is an AuthorizationError, and no other kind occurs.
C12_DenialKinds ==
    GateDenial =>
        /\ ~request.scopes => verdict = NoScope
        /\ request.scopes =>
              /\ verdict.kind = "AuthorizationError"
              /\ verdict \in {NoRole, NoMenu, Forbidden, Denied}
              /\ Len(request.user.roles) = 0 => verdict = NoRole
              /\ (Len(request.user.roles) > 0 /\ ~HasMenu(request.user)) => verdict = NoMenu

\* the policy engine refuses a staff user
C12_Witness ==
    /\ GateDenial /\ request.scopes
    /\ request.mode = "casbin" /\ ~request.engine
    /\ request.user.is_staff
    /\ verdict = Denied /\ verdict.kind = "AuthorizationError"

\* the case of C13: policy-engine mode, authenticated non-superuser with a
\* role that has a menu, the path outside TOKEN_REQUEST_PATH_EXCLUDE and
\* (method, path) outside RBAC_CASBIN_EXCLUDE
EngineAsked(rq) ==
    /\ rq.mode = "casbin" /\ rq.scopes
    /\ ~rq.user.is_superuser
    /\ Len(rq.user.roles) > 0 /\ HasMenu(rq.user)
    /\ rq.path \notin TOKEN_REQUEST_PATH_EXCLUDE
    /\ <<rq.method, rq.path>> \notin RBAC_CASBIN_EXCLUDE

\* C13 as stated: in that case the request is denied whenever enforce
\* returned false; no attribute of the user's roles turns that deny into an
\* allow.
C13_DecisionIsEngineResult ==
    (verdict # NoResult /\ EngineAsked(request) /\ ~request.engine) =>
        verdict # Allowed

\* C13 amended: the same for a staff user none of whose roles has data
\* scope 1; there a false from the engine is the gate's own denial.
C13_DecisionIsEngineResultForStaffClosedScope ==
    (/\ verdict # NoResult /\ EngineAsked(request)
     /\ request.user.is_staff /\ ~OpenScope(request.user)) =>
        /\ verdict = Allowed <=> request.engine
        /\ ~request.engine => verdict = Denied

\* the engine refuses although an enabled menu of the user lists the code
\* the request carries
C13_Witness ==
    /\ EngineAsked(request)
    /\ request.user.is_staff /\ ~OpenScope(request.user)
    /\ ~request.engine /\ verdict = Denied
    /\ request.permission # <<>>
    /\ HoldsCode(request.user, request.permission)

----------------------------------------------------------------------------
(* Properties of user resolution on absent relations *)

SomeRoleEnabled(u) == \E i \in 1..Len(u.roles) : u.roles[i].status = 1

\* C14: the department errors are raised only for a user whose dept_id is
\* set, the roles-locked error only for a non-empty role list with every
\* role disabled; an enabled user with no department and no roles resolves,
\* and so does one with an enabled role among disabled ones.
C14_PermissiveOnAbsence ==
    resolved # NoResult =>
        /\ resolved \in {DeptLocked, DeptDeleted} => user.dept_id # 0
        /\ resolved = RolesLocked => AllRolesLocked(user)
        /\ (user.found /\ user.status = 1 /\ user.dept_id = 0 /\ user.roles = <<>>) =>
              resolved = Resolved
        /\ (user.found /\ user.status = 1
              /\ (user.dept_id # 0 => user.dept.status = 1 /\ ~user.dept.del_flag)
              /\ SomeRoleEnabled(user)) => resolved = Resolved

\* an enabled user without department and without roles
C14_Witness ==
    /\ resolved = Resolved
    /\ user.found /\ user.status = 1
    /\ user.dept_id = 0 /\ user.roles = <<>>

----------------------------------------------------------------------------
(* Properties of the attached permission code *)

\* rbac_verify has decided and the request went past the scope, role, menu
\* and staff gates
PassedGates ==
    /\ verdict # NoResult /\ verdict # ServerError
    /\ verdict \notin {NoScope, NoRole, NoMenu, Forbidden}
    /\ request.scopes /\ ~request.user.is_superuser

\* C15: in role-menu mode the code the gate evaluates is the one
\* RequestPermission attached to the request before rbac_verify ran, and a
\* request with no code attached that went past the scope, role, menu and
\* staff gates is allowed, whatever the menus hold.
C15_GateReadsAttachedCode ==
    (request.mode = "role-menu" /\ PassedGates) =>
        /\ request.ran => request.permission = request.route.value
        /\ ~request.ran => request.permission = <<>>
        /\ request.permission = <<>> => verdict = Allowed
        /\ (/\ request.permission # <<>>
            /\ request.permission \notin RBAC_ROLE_MENU_EXCLUDE
            /\ request.path \notin TOKEN_REQUEST_PATH_EXCLUDE
            /\ ~OpenScope(request.user)) =>
              (verdict = Allowed <=> HoldsCode(request.user, request.route.value))

\* a route without RequestPermission: a staff user whose only menu is
\* disabled is allowed
C15_Witness ==
    /\ request.mode = "role-menu" /\ PassedGates
    /\ ~request.route.declared /\ request.permission = <<>>
    /\ request.path \notin TOKEN_REQUEST_PATH_EXCLUDE
    /\ ~OpenScope(request.user)
    /\ \A i \in 1..Len(request.user.roles) :
          \A j \in 1..Len(request.user.roles[i].menus) :
              request.user.roles[i].menus[j].status = 0
    /\ verdict = Allowed

----------------------------------------------------------------------------
(* Properties of the open data scope *)

\* C16: in role-menu mode an authenticated non-superuser staff user with a
\* role that has a menu and a role whose data_scope is 1 is allowed,
\* whatever the attached code, the exclusion set and the menus are.
C16_OpenDataScopeAllows ==
    (/\ verdict # NoResult
     /\ request.mode = "role-menu" /\ request.scopes
     /\ ~request.user.is_superuser /\ request.user.is_staff
     /\ HasMenu(request.user) /\ OpenScope(request.user)) => verdict = Allowed

\* one role of two has data scope 1; the attached code is not excluded and
\* no enabled menu lists it
C16_Witness ==
    /\ verdict = Allowed
    /\ request.mode = "role-menu" /\ request.scopes
    /\ request.path \notin TOKEN_REQUEST_PATH_EXCLUDE
    /\ ~request.user.is_superuser /\ request.user.is_staff
    /\ HasMenu(request.user)
    /\ Len(request.user.roles) = 2
    /\ request.user.roles[1].data_scope = 2 /\ request.user.roles[2].data_scope = 1
    /\ request.permission # <<>>
    /\ request.permission \notin RBAC_ROLE_MENU_EXCLUDE
    /\ ~HoldsCode(request.user, request.permission)

----------------------------------------------------------------------------
(* Properties of the policy engine *)

\* the engine decides: an authenticated staff non-superuser past the role
\* and menu gates, no role with data scope 1
EngineDecides ==
    /\ verdict # NoResult /\ EngineAsked(request)
    /\ request.user.is_staff /\ ~OpenScope(request.user)

\* sub is name, or bound to it by at most two bindings of g
BoundTo(g, sub, name) ==
    \/ sub = name
    \/ <<sub, name>> \in g
    \/ \E mid \in {"admin", "dev"} : <<sub, mid>> \in g /\ <<mid, name>> \in g

\* the rule covers the path: '/api/v1/users/' and one more segment
CoversPath(rule, path) ==
    rule.obj \in {UsersAny, UsersById} /\ path = "/api/v1/users/42"

\* C17: a rule (role, "/api/v1/users/*", "GET") with the subject bound to
\* the role authorizes GET /api/v1/users/42; with no other rule loaded POST
\* /api/v1/users/42 is refused; a rule whose action is "*" authorizes every
\* method on a path it matches; a subject bound to no rule that matches the
\* path and the method is refused.
C17_PolicyMatching ==
    EngineDecides =>
        LET sub == request.user.uuid
            GetUsers(role) == [sub |-> role, obj |-> UsersAny, act |-> "GET"]
        IN  /\ (\E role \in {"admin", "dev"} :
                   /\ GetUsers(role) \in policy.p /\ <<sub, role>> \in policy.g
                   /\ request.path = "/api/v1/users/42" /\ request.method = "GET")
                => verdict = Allowed
            /\ (\E role \in {"admin", "dev"} :
                   /\ policy.p = {GetUsers(role)} /\ <<sub, role>> \in policy.g
                   /\ request.path = "/api/v1/users/42" /\ request.method = "POST")
                => verdict = Denied
            /\ (\E rule \in policy.p :
                   /\ rule.act = "*" /\ BoundTo(policy.g, sub, rule.sub)
                   /\ CoversPath(rule, request.path))
                => verdict = Allowed
            /\ (~\E rule \in policy.p :
                   /\ BoundTo(policy.g, sub, rule.sub)
                   /\ CoversPath(rule, request.path)
                   /\ rule.act \in {request.method, "*"})
                => verdict = Denied

\* the only rule is (admin, /api/v1/users/*, GET), the subject is bound to
\* admin, and POST /api/v1/users/42 is refused
C17_Witness ==
    /\ EngineDecides
    /\ policy.p = {[sub |-> "admin", obj |-> UsersAny, act |-> "GET"]}
    /\ <<request.user.uuid, "admin">> \in policy.g
    /\ request.path = "/api/v1/users/42" /\ request.method = "POST"
    /\ verdict = Denied

----------------------------------------------------------------------------
(* Properties of concurrent single-session issues *)

\* q started while the single-session issue p for the same subject was
\* running, and both have returned
ConcurrentIssues(p, q) ==
    /\ p # q
    /\ Done(p, "issueA") /\ ~proc[p].multi
    /\ Done(q, "issueA") /\ ~proc[q].multi
    /\ proc[p].sub = proc[q].sub
    /\ proc[q].peer = proc[p].id

\* C18: after two concurrent IssueAccessToken(S, false) calls have
\* completed, whatever the interleaving of their scan, delete and store
\* steps, the store holds no access key of S that was issued before both
\* calls started.
C18_NoEarlierKeySurvives ==
    \A p, q \in Procs :
        (ConcurrentIssues(p, q) /\ proc[p].prev # NoTok) =>
            ~Present(store, AccessKey(proc[p].sub, proc[p].prev))

----------------------------------------------------------------------------
(* Properties of a failed rotation *)

\* the step in which the create_new_token call of slot p raises TokenError
RotationFails(p) ==
    /\ proc'[p] # proc[p]
    /\ proc'[p].op = "rotate" /\ proc'[p].pc = "done"
    /\ proc'[p].out = "TokenError"

\* C19: a RotateTokens call that raises TokenError creates and deletes no
\* key: the store is as before, and the old access token it was given, if
\* its key was present, is still present and still authenticates.
C19_FailedRotationLeavesStore ==
    [][\A p \in Procs : RotationFails(p) =>
          LET r == proc'[p]
          IN  /\ store' = store
              /\ r.newA = NoTok /\ r.newR = NoTok
              /\ Present(store, AccessKey(r.sub, r.tok)) =>
                    Present(store', AccessKey(r.sub, r.tok))
              /\ jwt_authentication(r.tok, store, now).ok =>
                    jwt_authentication(r.tok, store', now').ok
      ]_vars

\* a rotation refused for its refresh token, right after the access token
\* it was given had been stored: that token still authenticates
C19_Witness ==
    /\ Done(1, "rotate") /\ proc[1].out = "TokenError"
    /\ ~proc[1].sawKey
    /\ lastCmd.cmd = "setex"
    /\ lastCmd.key = AccessKey(proc[1].sub, proc[1].tok)
    /\ Authenticates(proc[1].tok, proc[1].sub)

====
